---- MODULE Spec2Model ----
(***************************************************************************)
(* Model of the Whispering transcription feature:                          *)
(*   - the split-audio dialog store (createSplitAudioDialog),              *)
(*   - the dialog component's handlers,                                    *)
(*   - transcribeRecording / transcribeBlob / transcribeSplitAudio /       *)
(*     transcribeWithProvider,                                             *)
(*   - the pure helpers calculateChunkSeconds, formatSplitTag and          *)
(*     formatTimestamp.                                                    *)
(*                                                                         *)
(* Text is modelled as a sequence of one-character strings so that         *)
(* formatting, trimming and joining are computed, not assumed.  The two    *)
(* non-ASCII characters of the tag, U+2022 (bullet) and U+2013 (en dash),  *)
(* are written Bullet and EnDash.                                          *)
(*                                                                         *)
(* maxMb and safetyMb are decimal fractions of a megabyte in the program   *)
(* (the inputs step by 0.1); they are held here as integers counted in     *)
(* 1/MbScale of a megabyte, and the arithmetic on them is exact.           *)
(* minChunkSec and bitrateKbps are integers (the inputs step by 1 and 8),  *)
(* and bitrateKbps is positive, so every quotient is a finite number.      *)
(***************************************************************************)
EXTENDS Integers, Sequences, FiniteSets, TLC

(***************************************************************************)
(* Bounds of the model.                                                    *)
(***************************************************************************)
MaxChunks == 3

(***************************************************************************)
(* Program constants.                                                      *)
(***************************************************************************)
MAX_TRANSCRIPTION_FILE_MB == 25
MB_BYTES == 1024 * 1024
MbScale == 10

Bullet == "*"
EnDash == "-"
NL == "\n"

(***************************************************************************)
(* Text helpers: what String(n), padStart(2,'0'), trim() and join('\n\n')  *)
(* compute.                                                                *)
(***************************************************************************)
Digit(d) ==
    CASE d = 0 -> "0" [] d = 1 -> "1" [] d = 2 -> "2" [] d = 3 -> "3"
      [] d = 4 -> "4" [] d = 5 -> "5" [] d = 6 -> "6" [] d = 7 -> "7"
      [] d = 8 -> "8" [] d = 9 -> "9"

RECURSIVE ToStr(_)
ToStr(n) ==
    IF n < 10 THEN <<Digit(n)>> ELSE ToStr(n \div 10) \o <<Digit(n % 10)>>

PadStart2(s) ==
    IF Len(s) < 2 THEN <<"0">> \o s ELSE s

IsSpace(c) ==
    c \in {" ", NL}

RECURSIVE TrimStart(_)
TrimStart(s) ==
    IF s # <<>> /\ IsSpace(Head(s)) THEN TrimStart(Tail(s)) ELSE s

RECURSIVE TrimEnd(_)
TrimEnd(s) ==
    IF s # <<>> /\ IsSpace(s[Len(s)]) THEN TrimEnd(SubSeq(s, 1, Len(s) - 1)) ELSE s

Trim(s) ==
    TrimEnd(TrimStart(s))

RECURSIVE Join(_, _)
Join(parts, sep) ==
    IF parts = <<>> THEN <<>>
    ELSE IF Len(parts) = 1 THEN parts[1]
    ELSE parts[1] \o sep \o Join(Tail(parts), sep)

(***************************************************************************)
(* calculateChunkSeconds.  With maxMb and safetyMb in 1/MbScale MB,        *)
(*   targetBytes / bytesPerSecond                                          *)
(*     = ((maxMb - safetyMb) * MB_BYTES / MbScale) / (bitrateKbps*1000/8)  *)
(*     = ((maxMb - safetyMb) * MB_BYTES) / (MbScale * bitrateKbps * 125)   *)
(* and Math.floor of it is the floored integer quotient (bitrateKbps > 0). *)
(***************************************************************************)
MathMax(a, b) ==
    IF a >= b THEN a ELSE b

MathFloorQuot(num, den) ==
    num \div den

CalculateChunkSecondsNoMinimum(o) ==
    MathFloorQuot((o.maxMb - o.safetyMb) * MB_BYTES,
                  MbScale * o.bitrateKbps * 125)

CalculateChunkSecondsCeil(o) ==
    MathMax(o.minChunkSec,
            -MathFloorQuot(-((o.maxMb - o.safetyMb) * MB_BYTES),
                           MbScale * o.bitrateKbps * 125))

CalculateChunkSeconds(o) ==
    MathMax(o.minChunkSec,
            MathFloorQuot((o.maxMb - o.safetyMb) * MB_BYTES,
                          MbScale * o.bitrateKbps * 125))

(***************************************************************************)
(* formatTimestamp and formatSplitTag.                                     *)
(***************************************************************************)
FormatTimestampNoPad(totalSeconds) ==
    LET clampedSeconds == MathMax(0, totalSeconds)
        hours == clampedSeconds \div 3600
        minutes == (clampedSeconds % 3600) \div 60
        seconds == clampedSeconds % 60
        hourPrefix == IF hours > 0 THEN PadStart2(ToStr(hours)) \o <<":">> ELSE <<>>
    IN  hourPrefix \o PadStart2(ToStr(minutes)) \o <<":">> \o ToStr(seconds)

FormatTimestamp(totalSeconds) ==
    LET clampedSeconds == MathMax(0, totalSeconds)
        hours == clampedSeconds \div 3600
        minutes == (clampedSeconds % 3600) \div 60
        seconds == clampedSeconds % 60
        hourPrefix == IF hours > 0 THEN PadStart2(ToStr(hours)) \o <<":">> ELSE <<>>
    IN  hourPrefix \o PadStart2(ToStr(minutes)) \o <<":">> \o PadStart2(ToStr(seconds))

FormatSplitTag(index, startSeconds, endSeconds) ==
    <<"[", "C", "h", "u", "n", "k", " ">> \o ToStr(index) \o <<" ", Bullet, " ">>
        \o FormatTimestamp(startSeconds) \o <<" ", EnDash, " ">>
        \o FormatTimestamp(endSeconds) \o <<"]">>

(***************************************************************************)
(* The tag transcribeSplitAudio pushes for the chunk at `index` (0-based). *)
(***************************************************************************)
ChunkTagShifted(index, chunkSeconds) ==
    FormatSplitTag(index + 1, (index + 1) * chunkSeconds, (index + 2) * chunkSeconds)

ChunkTag(index, chunkSeconds) ==
    FormatSplitTag(index + 1, index * chunkSeconds, (index + 1) * chunkSeconds)

(***************************************************************************)
(* Values.                                                                 *)
(***************************************************************************)
\* The options the store is created with: 25 MB, 128 kbps, 10 s, 0.5 MB, tags on.
DefaultOptions ==
    [maxMb |-> 25 * MbScale, bitrateKbps |-> 128, minChunkSec |-> 10,
     safetyMb |-> MbScale \div 2, addSplitTags |-> TRUE]

\* SplitAudioDialogResult = SplitAudioDialogOptions | null
NullResult == [isNull |-> TRUE, options |-> DefaultOptions]
OptionsResult(o) == [isNull |-> FALSE, options |-> o]

\* Blob | null, and the blobs the services hand back.
NullBlob == [kind |-> "null", src |-> "", part |-> 0, size |-> 0]
OriginalBlob(size) == [kind |-> "original", src |-> "", part |-> 0, size |-> size]
CompressedBlob(b) == [kind |-> "compressed", src |-> b.kind, part |-> 0, size |-> b.size \div 4]
ChunkBlob(b, i) == [kind |-> "chunk", src |-> b.kind, part |-> i, size |-> 0]

\* blobSizeMb is the fraction size / MB_BYTES; null before the first open.
NullSizeMb == [num |-> 0, den |-> 0]
SizeMb(b) == [num |-> b.size, den |-> MB_BYTES]

\* Result<string, WhisperingError>
Ok(text) == [ok |-> TRUE, data |-> text, title |-> ""]
Err(title) == [ok |-> FALSE, data |-> <<>>, title |-> title]
NoResult == [ok |-> FALSE, data |-> <<>>, title |-> "(pending)"]

\* The names the selected-service setting can hold; "" is none of the known ones.
KnownServices ==
    {"OpenAI", "Groq", "speaches", "ElevenLabs", "Deepgram", "Mistral",
     "whispercpp", "parakeet", "moonshine"}
ServiceSettings == KnownServices \cup {""}
NoProvider == "(none)"

\* What the providers, the audio services and the database can answer.
ProviderTexts == { <<" ", "a", NL>>, <<"b">> }
ProviderResults == {Ok(t) : t \in ProviderTexts} \cup {Err("Provider error")}
BlobSizes ==
    {MAX_TRANSCRIPTION_FILE_MB * MB_BYTES, MAX_TRANSCRIPTION_FILE_MB * MB_BYTES + 1}
SettingsSplitOptions ==
    {DefaultOptions,
     [maxMb |-> MbScale, bitrateKbps |-> 320, minChunkSec |-> 5,
      safetyMb |-> MbScale - 1, addSplitTags |-> FALSE]}
InitialRecordings ==
    {[transcriptionStatus |-> "UNPROCESSED", transcribedText |-> <<>>],
     [transcriptionStatus |-> "DONE", transcribedText |-> <<"o", "l", "d">>]}

\* What the user types into the dialog's number inputs: (settings key, value).
NumberInputs ==
    {<<"transcription.splitBitrateKbps", 16>>, <<"transcription.splitMaxMB", 2 * MbScale>>}

VARIABLES
    \* the dialog store
    isOpen, blob, blobSizeMb, options, resolvePromise,
    \* the promises open has returned: state, value, and how often resolve was called
    promises,
    \* the settings store and the recording's row in the database
    settings, dbRecording,
    \* transcribeRecording / transcribeBlob / transcribeSplitAudio
    pc, recording, audioBlob, selectedService, audioToTranscribe, awaited,
    splitOptions, splitBlobs, chunkSeconds, merged, index, transcriptionResult,
    result,
    \* what the run did to the outside: service calls and returns, notifications,
    \* analytics events
    calls, notifications, analytics,
    \* the pure helpers applied to drawn inputs
    calcPc, calcOptions, calcSeconds, calcTags, calcTotalSeconds, calcStamp,
    \* the callers of the store, kept for the properties only: the last method
    \* called with the request that was pending when it was called, and the
    \* options of the last open as edited since
    lastCall, edited

storeVars == <<isOpen, blob, blobSizeMb, options, resolvePromise, promises>>
runVars ==
    <<pc, recording, audioBlob, selectedService, audioToTranscribe, awaited,
      splitOptions, splitBlobs, chunkSeconds, merged, index, transcriptionResult,
      result>>
logVars == <<calls, notifications, analytics>>
calcVars == <<calcPc, calcOptions, calcSeconds, calcTags, calcTotalSeconds, calcStamp>>
callerVars == <<lastCall, edited>>
vars == <<storeVars, settings, dbRecording, runVars, logVars, calcVars, callerVars>>

(***************************************************************************)
(* Effects on the outside world, as they are recorded.                     *)
(***************************************************************************)
CallEvent(svc, b, note) ==
    [svc |-> svc, phase |-> "call", blob |-> b, ok |-> TRUE, data |-> <<>>, note |-> note]
ReturnEvent(svc, b, ok, data) ==
    [svc |-> svc, phase |-> "return", blob |-> b, ok |-> ok, data |-> data, note |-> ""]

Warning(title) == [level |-> "warning", title |-> title]
Info(title) == [level |-> "info", title |-> title]

(***************************************************************************)
(* The dialog store: updateOptions, open, confirm, cancel.                 *)
(***************************************************************************)
\* Calling a promise's resolve function: the first call settles it, later calls
\* change nothing but are counted.
Resolve(ps, p, value) ==
    [ps EXCEPT ![p] =
        IF @.state = "pending"
        THEN [state |-> "resolved", value |-> value, resolveCalls |-> @.resolveCalls + 1]
        ELSE [@ EXCEPT !.resolveCalls = @ + 1]]

NewPromise == [state |-> "pending", value |-> NullResult, resolveCalls |-> 0]

PatchedResetsOtherKeys(o, next) ==
    [k \in DOMAIN o |-> IF k \in DOMAIN next THEN next[k] ELSE DefaultOptions[k]]

\* { ...options, ...next }
Patched(o, next) ==
    [k \in DOMAIN o |-> IF k \in DOMAIN next THEN next[k] ELSE o[k]]

StoreUpdateOptions(next) ==
    /\ options' = Patched(options, next)
    /\ UNCHANGED <<isOpen, blob, blobSizeMb, resolvePromise, promises>>

StoreOpenKeepsEarlier(request) ==
    /\ blob' = request.blob
    /\ blobSizeMb' = request.blobSizeMb
    /\ options' = request.options
    /\ isOpen' = TRUE
    /\ promises' = Append(promises, NewPromise)
    /\ resolvePromise' = Len(promises) + 1

\* resolvePromise is the index in promises of the pending request, 0 for null.
StoreOpen(request) ==
    /\ blob' = request.blob
    /\ blobSizeMb' = request.blobSizeMb
    /\ options' = request.options
    /\ isOpen' = TRUE
    /\ promises' =
          Append(IF resolvePromise # 0
                 THEN Resolve(promises, resolvePromise, NullResult)
                 ELSE promises,
                 NewPromise)
    /\ resolvePromise' = Len(promises) + 1

StoreConfirm ==
    IF resolvePromise = 0
    THEN UNCHANGED storeVars
    ELSE /\ isOpen' = FALSE
         /\ promises' = Resolve(promises, resolvePromise, OptionsResult(options))
         /\ resolvePromise' = 0
         /\ UNCHANGED <<blob, blobSizeMb, options>>

StoreCancelKeepsResolver ==
    IF resolvePromise = 0
    THEN UNCHANGED storeVars
    ELSE /\ isOpen' = FALSE
         /\ promises' = Resolve(promises, resolvePromise, NullResult)
         /\ UNCHANGED <<blob, blobSizeMb, options, resolvePromise>>

StoreCancel ==
    IF resolvePromise = 0
    THEN UNCHANGED storeVars
    ELSE /\ isOpen' = FALSE
         /\ promises' = Resolve(promises, resolvePromise, NullResult)
         /\ resolvePromise' = 0
         /\ UNCHANGED <<blob, blobSizeMb, options>>

(***************************************************************************)
(* The dialog component.  Its controls exist while the dialog is shown.    *)
(***************************************************************************)
optionKeyMap(key) ==
    CASE key = "transcription.splitMaxMB" -> "maxMb"
      [] key = "transcription.splitBitrateKbps" -> "bitrateKbps"
      [] key = "transcription.splitMinChunkSec" -> "minChunkSec"
      [] key = "transcription.splitSafetyMB" -> "safetyMb"

\* updateNumberSetting with a value that parses to a finite number.
UpdateNumberSetting(key, nextValue) ==
    /\ isOpen
    /\ settings' = [settings EXCEPT ![key] = nextValue]
    /\ StoreUpdateOptions([k \in {optionKeyMap(key)} |-> nextValue])
    /\ UNCHANGED <<dbRecording, runVars, logVars, calcVars, callerVars>>

\* The checkbox's onCheckedChange.
CheckedChange(checked) ==
    /\ isOpen
    /\ settings' = [settings EXCEPT !["transcription.splitTaggingEnabled"] = checked]
    /\ StoreUpdateOptions([k \in {"addSplitTags"} |-> checked])
    /\ UNCHANGED <<dbRecording, runVars, logVars, calcVars, callerVars>>

\* The footer's buttons.
ClickConfirm ==
    /\ isOpen
    /\ StoreConfirm
    /\ UNCHANGED <<settings, dbRecording, runVars, logVars, calcVars, callerVars>>

ClickCancel ==
    /\ isOpen
    /\ StoreCancel
    /\ UNCHANGED <<settings, dbRecording, runVars, logVars, calcVars, callerVars>>

\* Dialog.Root closing itself (escape, click outside): bind:open writes isOpen = false
\* through the store's setter, then onOpenChange(false) calls cancel().
DialogClosedWithoutCancel ==
    /\ isOpen
    /\ isOpen' = FALSE
    /\ UNCHANGED <<blob, blobSizeMb, options, resolvePromise, promises>>
    /\ UNCHANGED <<settings, dbRecording, runVars, logVars, calcVars, callerVars>>

DialogClosed ==
    /\ isOpen
    /\ IF resolvePromise = 0
       THEN /\ isOpen' = FALSE
            /\ UNCHANGED <<blob, blobSizeMb, options, resolvePromise, promises>>
       ELSE StoreCancel
    /\ UNCHANGED <<settings, dbRecording, runVars, logVars, calcVars, callerVars>>

(***************************************************************************)
(* transcribeWithProvider: the switch on selectedService.                  *)
(***************************************************************************)
ProviderOfAlwaysOpenAI(service) ==
    "openai"

ProviderOf(service) ==
    CASE service = "OpenAI" -> "openai"
      [] service = "Groq" -> "groq"
      [] service = "speaches" -> "speaches"
      [] service = "ElevenLabs" -> "elevenlabs"
      [] service = "Deepgram" -> "deepgram"
      [] service = "Mistral" -> "mistral"
      [] service = "whispercpp" -> "whispercpp"
      [] service = "parakeet" -> "parakeet"
      [] service = "moonshine" -> "moonshine"
      [] OTHER -> NoProvider

\* The call transcribeWithProvider makes when it is entered: one provider's
\* transcribe, or none in the default case.
ProviderCall(audio, service) ==
    IF ProviderOf(service) = NoProvider
    THEN <<>>
    ELSE <<CallEvent(ProviderOf(service), audio, "transcribe")>>

\* What transcribeWithProvider can return, and the return it records.
ProviderOutcomes(service) ==
    IF ProviderOf(service) = NoProvider
    THEN {Err("No transcription service selected")}
    ELSE ProviderResults

ProviderReturn(audio, service, r) ==
    IF ProviderOf(service) = NoProvider
    THEN <<>>
    ELSE <<ReturnEvent(ProviderOf(service), audio, r.ok, r.data)>>

(***************************************************************************)
(* transcribeBlob, from the size test to its next await (lines 259-293).   *)
(***************************************************************************)
RequiresSplitAtLimit(b) ==
    b.size >= MAX_TRANSCRIPTION_FILE_MB * MB_BYTES

RequiresSplit(b) ==
    b.size > MAX_TRANSCRIPTION_FILE_MB * MB_BYTES

SettingsOptions ==
    [maxMb |-> settings["transcription.splitMaxMB"],
     bitrateKbps |-> settings["transcription.splitBitrateKbps"],
     minChunkSec |-> settings["transcription.splitMinChunkSec"],
     safetyMb |-> settings["transcription.splitSafetyMB"],
     addSplitTags |-> settings["transcription.splitTaggingEnabled"]]

SplitOrSend(b, audio, service, baseCalls) ==
    IF RequiresSplit(b)
    THEN /\ StoreOpen([blob |-> b, blobSizeMb |-> SizeMb(b), options |-> SettingsOptions])
         /\ awaited' = Len(promises) + 1
         /\ calls' = Append(baseCalls, CallEvent("splitAudioDialog.open", b, ""))
         /\ pc' = "awaitDialog"
    ELSE /\ calls' = baseCalls \o ProviderCall(audio, service)
         /\ pc' = "awaitProvider"
         /\ UNCHANGED <<storeVars, awaited>>

(***************************************************************************)
(* transcribeBlob returning r (lines 295-312) and transcribeRecording      *)
(* going on to record the outcome (lines 140-145, 160-165).                *)
(***************************************************************************)
TranscribeBlobReturns(r, baseCalls) ==
    /\ transcriptionResult' = r
    /\ analytics' =
          Append(analytics,
                 IF r.ok THEN "transcription_completed" ELSE "transcription_failed")
    /\ calls' =
          Append(baseCalls,
                 CallEvent("db.recordings.update", NullBlob,
                           IF r.ok THEN "DONE" ELSE "FAILED"))
    /\ pc' = IF r.ok THEN "awaitSetDone" ELSE "awaitSetFailed"

(***************************************************************************)
(* transcribeRecording.                                                    *)
(***************************************************************************)
\* The mutation starts: getAudioBlob is called.
TranscribeRecording ==
    /\ pc = "start"
    /\ pc' = "awaitGetAudioBlob"
    /\ calls' = Append(calls, CallEvent("db.recordings.getAudioBlob", NullBlob, ""))
    /\ UNCHANGED <<storeVars, settings, dbRecording, recording, audioBlob,
                   selectedService, audioToTranscribe, awaited, splitOptions,
                   splitBlobs, chunkSeconds, merged, index, transcriptionResult,
                   result, notifications, analytics, calcVars, callerVars>>

GetAudioBlobFailsGoesOn ==
    /\ pc = "awaitGetAudioBlob"
    /\ calls' =
          calls \o <<ReturnEvent("db.recordings.getAudioBlob", NullBlob, FALSE, <<>>),
                     CallEvent("db.recordings.update", NullBlob, "TRANSCRIBING")>>
    /\ pc' = "awaitSetTranscribing"
    /\ UNCHANGED <<storeVars, settings, dbRecording, recording, audioBlob,
                   selectedService, audioToTranscribe, awaited, splitOptions,
                   splitBlobs, chunkSeconds, merged, index, transcriptionResult,
                   result, notifications, analytics, calcVars, callerVars>>

\* getAudioBlob fails: the mutation returns the error.
GetAudioBlobFails ==
    /\ pc = "awaitGetAudioBlob"
    /\ calls' = Append(calls, ReturnEvent("db.recordings.getAudioBlob", NullBlob, FALSE, <<>>))
    /\ result' = Err("Failed to fetch audio")
    /\ pc' = "done"
    /\ UNCHANGED <<storeVars, settings, dbRecording, recording, audioBlob,
                   selectedService, audioToTranscribe, awaited, splitOptions,
                   splitBlobs, chunkSeconds, merged, index, transcriptionResult,
                   notifications, analytics, calcVars, callerVars>>

\* getAudioBlob answers with the blob: the status update to TRANSCRIBING is issued.
GetAudioBlobReturns(size) ==
    /\ pc = "awaitGetAudioBlob"
    /\ audioBlob' = OriginalBlob(size)
    /\ calls' =
          calls \o <<ReturnEvent("db.recordings.getAudioBlob", OriginalBlob(size), TRUE, <<>>),
                     CallEvent("db.recordings.update", NullBlob, "TRANSCRIBING")>>
    /\ pc' = "awaitSetTranscribing"
    /\ UNCHANGED <<storeVars, settings, dbRecording, recording, selectedService,
                   audioToTranscribe, awaited, splitOptions, splitBlobs,
                   chunkSeconds, merged, index, transcriptionResult, result,
                   notifications, analytics, calcVars, callerVars>>

\* The update to TRANSCRIBING returns (dbOk: whether it succeeded); transcribeBlob
\* is entered and runs to its first await (lines 127-139, 209-226, 259-293).
SetTranscribingReturns(dbOk) ==
    /\ pc = "awaitSetTranscribing"
    /\ dbRecording' =
          IF dbOk THEN [recording EXCEPT !.transcriptionStatus = "TRANSCRIBING"]
          ELSE dbRecording
    /\ notifications' =
          IF dbOk THEN notifications
          ELSE Append(notifications,
                      Warning("Unable to set recording transcription status to transcribing"))
    /\ selectedService' = settings["transcription.selectedTranscriptionService"]
    /\ analytics' = Append(analytics, "transcription_requested")
    /\ audioToTranscribe' = audioBlob
    /\ LET returned == Append(calls, ReturnEvent("db.recordings.update", NullBlob, dbOk, <<>>))
       IN  IF settings["transcription.compressionEnabled"]
           THEN /\ calls' = Append(returned, CallEvent("ffmpeg.compressAudioBlob", audioBlob, ""))
                /\ pc' = "awaitCompress"
                /\ UNCHANGED <<storeVars, awaited>>
           ELSE SplitOrSend(audioBlob, audioBlob,
                            settings["transcription.selectedTranscriptionService"], returned)
    /\ UNCHANGED <<settings, recording, audioBlob, splitOptions, splitBlobs,
                   chunkSeconds, merged, index, transcriptionResult, result, calcVars, callerVars>>

(***************************************************************************)
(* transcribeBlob after compressAudioBlob (lines 228-293).                 *)
(***************************************************************************)
AudioAfterCompressionUnchecked(compressOk) ==
    IF compressOk THEN CompressedBlob(audioBlob) ELSE NullBlob

AudioAfterCompression(compressOk) ==
    IF compressOk THEN CompressedBlob(audioBlob) ELSE audioBlob

CompressReturns(compressOk) ==
    /\ pc = "awaitCompress"
    /\ audioToTranscribe' = AudioAfterCompression(compressOk)
    /\ notifications' =
          Append(notifications,
                 IF compressOk THEN Info("Audio compressed")
                 ELSE Warning("Audio compression failed"))
    /\ analytics' =
          Append(analytics,
                 IF compressOk THEN "compression_completed" ELSE "compression_failed")
    /\ SplitOrSend(audioBlob, AudioAfterCompression(compressOk), selectedService,
                   Append(calls,
                          ReturnEvent("ffmpeg.compressAudioBlob",
                                      IF compressOk THEN CompressedBlob(audioBlob) ELSE NullBlob,
                                      compressOk, <<>>)))
    /\ UNCHANGED <<settings, dbRecording, recording, audioBlob, selectedService,
                   splitOptions, splitBlobs, chunkSeconds, merged, index,
                   transcriptionResult, result, calcVars, callerVars>>

(***************************************************************************)
(* transcribeBlob after the dialog's promise has resolved (lines 275-287)  *)
(* and transcribeSplitAudio up to its first await (lines 326-332).         *)
(***************************************************************************)
DialogResolvedIgnoresNull ==
    /\ pc = "awaitDialog"
    /\ promises[awaited].state = "resolved"
    /\ LET splitResult == promises[awaited].value
           returned ==
               Append(calls,
                      ReturnEvent("splitAudioDialog.open", audioBlob,
                                  ~splitResult.isNull, <<>>))
       IN  /\ splitOptions' = splitResult.options
           /\ calls' = Append(returned, CallEvent("ffmpeg.splitAudioBlob", audioBlob, ""))
           /\ pc' = "awaitSplit"
           /\ UNCHANGED <<transcriptionResult, analytics>>
    /\ UNCHANGED <<storeVars, settings, dbRecording, recording, audioBlob,
                   selectedService, audioToTranscribe, awaited, splitBlobs,
                   chunkSeconds, merged, index, result, notifications, calcVars, callerVars>>

DialogResolved ==
    /\ pc = "awaitDialog"
    /\ promises[awaited].state = "resolved"
    /\ LET splitResult == promises[awaited].value
           returned ==
               Append(calls,
                      ReturnEvent("splitAudioDialog.open", audioBlob,
                                  ~splitResult.isNull, <<>>))
       IN  IF splitResult.isNull
           THEN /\ TranscribeBlobReturns(Err("Split canceled"), returned)
                /\ UNCHANGED splitOptions
           ELSE /\ splitOptions' = splitResult.options
                /\ calls' = Append(returned, CallEvent("ffmpeg.splitAudioBlob", audioBlob, ""))
                /\ pc' = "awaitSplit"
                /\ UNCHANGED <<transcriptionResult, analytics>>
    /\ UNCHANGED <<storeVars, settings, dbRecording, recording, audioBlob,
                   selectedService, audioToTranscribe, awaited, splitBlobs,
                   chunkSeconds, merged, index, result, notifications, calcVars, callerVars>>

(***************************************************************************)
(* transcribeSplitAudio (lines 334-364).                                   *)
(***************************************************************************)
SplitFails ==
    /\ pc = "awaitSplit"
    /\ TranscribeBlobReturns(
          Err("Audio split failed"),
          Append(calls, ReturnEvent("ffmpeg.splitAudioBlob", NullBlob, FALSE, <<>>)))
    /\ UNCHANGED <<storeVars, settings, dbRecording, recording, audioBlob,
                   selectedService, audioToTranscribe, awaited, splitOptions,
                   splitBlobs, chunkSeconds, merged, index, result,
                   notifications, calcVars, callerVars>>

RECURSIVE ProviderCallsFor(_, _)
ProviderCallsFor(chunks, service) ==
    IF chunks = <<>> THEN <<>>
    ELSE ProviderCall(Head(chunks), service) \o ProviderCallsFor(Tail(chunks), service)

SplitReturnsSendsAllChunks(n) ==
    /\ pc = "awaitSplit"
    /\ splitBlobs' = [i \in 1..n |-> ChunkBlob(audioBlob, i)]
    /\ chunkSeconds' = CalculateChunkSeconds(splitOptions)
    /\ merged' = <<>>
    /\ index' = 0
    /\ calls' =
          Append(calls, ReturnEvent("ffmpeg.splitAudioBlob", audioBlob, TRUE, <<>>))
              \o ProviderCallsFor([i \in 1..n |-> ChunkBlob(audioBlob, i)], selectedService)
    /\ pc' = "awaitChunk"
    /\ UNCHANGED <<storeVars, settings, dbRecording, recording, audioBlob,
                   selectedService, audioToTranscribe, awaited, splitOptions,
                   transcriptionResult, result, notifications, analytics, calcVars, callerVars>>

\* splitAudioBlob answers with n chunks; the loop starts with the first chunk.
\* The array has no holes, so the loop's guard `if (!chunk) continue` never skips.
SplitReturns(n) ==
    /\ pc = "awaitSplit"
    /\ splitBlobs' = [i \in 1..n |-> ChunkBlob(audioBlob, i)]
    /\ chunkSeconds' = CalculateChunkSeconds(splitOptions)
    /\ merged' = <<>>
    /\ index' = 0
    /\ calls' =
          Append(calls, ReturnEvent("ffmpeg.splitAudioBlob", audioBlob, TRUE, <<>>))
              \o ProviderCall(ChunkBlob(audioBlob, 1), selectedService)
    /\ pc' = "awaitChunk"
    /\ UNCHANGED <<storeVars, settings, dbRecording, recording, audioBlob,
                   selectedService, audioToTranscribe, awaited, splitOptions,
                   transcriptionResult, result, notifications, analytics, calcVars, callerVars>>

\* What one pass of the loop body pushes onto merged (lines 355-361).
PushedNoTrim(m, i, seconds, addSplitTags, text) ==
    m \o (IF addSplitTags THEN <<ChunkTag(i, seconds)>> ELSE <<>>) \o <<text>>

Pushed(m, i, seconds, addSplitTags, text) ==
    m \o (IF addSplitTags THEN <<ChunkTag(i, seconds)>> ELSE <<>>) \o <<Trim(text)>>

\* The index the loop goes on with after the chunk at i.
NextIndex(i) ==
    i + 1

\* Whether the loop returns on a chunk's answer r (line 353).
ChunkErrorIgnored(r) ==
    FALSE

ChunkErrorReturns(r) ==
    ~r.ok

\* The provider answers for the chunk at index.
ChunkReturns(r) ==
    /\ pc = "awaitChunk"
    /\ r \in ProviderOutcomes(selectedService)
    /\ LET chunk == splitBlobs[index + 1]
           returned == calls \o ProviderReturn(chunk, selectedService, r)
           pushed == Pushed(merged, index, chunkSeconds, splitOptions.addSplitTags, r.data)
       IN  IF ChunkErrorReturns(r)
           THEN /\ TranscribeBlobReturns(r, returned)
                /\ UNCHANGED <<merged, index>>
           ELSE /\ merged' = pushed
                /\ index' = NextIndex(index)
                /\ IF NextIndex(index) < Len(splitBlobs)
                   THEN /\ calls' =
                              returned \o ProviderCall(splitBlobs[NextIndex(index) + 1],
                                                       selectedService)
                        /\ UNCHANGED <<pc, transcriptionResult, analytics>>
                   ELSE TranscribeBlobReturns(Ok(Join(pushed, <<NL, NL>>)), returned)
    /\ UNCHANGED <<storeVars, settings, dbRecording, recording, audioBlob,
                   selectedService, audioToTranscribe, awaited, splitOptions,
                   splitBlobs, chunkSeconds, result, notifications, calcVars, callerVars>>

(***************************************************************************)
(* transcribeBlob after transcribeWithProvider on the whole audio          *)
(* (lines 289-312).                                                        *)
(***************************************************************************)
ProviderReturns(r) ==
    /\ pc = "awaitProvider"
    /\ r \in ProviderOutcomes(selectedService)
    /\ TranscribeBlobReturns(r, calls \o ProviderReturn(audioToTranscribe, selectedService, r))
    /\ UNCHANGED <<storeVars, settings, dbRecording, recording, audioBlob,
                   selectedService, audioToTranscribe, awaited, splitOptions,
                   splitBlobs, chunkSeconds, merged, index, result,
                   notifications, calcVars, callerVars>>

(***************************************************************************)
(* transcribeRecording after the closing status update (lines 146-157,     *)
(* 166-177).                                                               *)
(***************************************************************************)
SetFailedReturnsKeepsStatus(dbOk) ==
    /\ pc = "awaitSetFailed"
    /\ calls' = Append(calls, ReturnEvent("db.recordings.update", NullBlob, dbOk, <<>>))
    /\ result' = transcriptionResult
    /\ pc' = "done"
    /\ UNCHANGED <<storeVars, settings, dbRecording, recording, audioBlob,
                   selectedService, audioToTranscribe, awaited, splitOptions,
                   splitBlobs, chunkSeconds, merged, index, transcriptionResult,
                   notifications, analytics, calcVars, callerVars>>

SetFailedReturns(dbOk) ==
    /\ pc = "awaitSetFailed"
    /\ dbRecording' =
          IF dbOk THEN [recording EXCEPT !.transcriptionStatus = "FAILED"]
          ELSE dbRecording
    /\ notifications' =
          IF dbOk THEN notifications
          ELSE Append(notifications,
                      Warning("Unable to update recording after transcription"))
    /\ calls' = Append(calls, ReturnEvent("db.recordings.update", NullBlob, dbOk, <<>>))
    /\ result' = transcriptionResult
    /\ pc' = "done"
    /\ UNCHANGED <<storeVars, settings, recording, audioBlob, selectedService,
                   audioToTranscribe, awaited, splitOptions, splitBlobs,
                   chunkSeconds, merged, index, transcriptionResult, analytics,
                   calcVars, callerVars>>

SetDoneReturnsFailsWithDatabase(dbOk) ==
    /\ pc = "awaitSetDone"
    /\ dbRecording' =
          IF dbOk
          THEN [recording EXCEPT !.transcribedText = transcriptionResult.data,
                                 !.transcriptionStatus = "DONE"]
          ELSE dbRecording
    /\ notifications' =
          IF dbOk THEN notifications
          ELSE Append(notifications,
                      Warning("Unable to update recording after transcription"))
    /\ calls' = Append(calls, ReturnEvent("db.recordings.update", NullBlob, dbOk, <<>>))
    /\ result' =
          IF dbOk THEN Ok(transcriptionResult.data)
          ELSE Err("Unable to update recording after transcription")
    /\ pc' = "done"
    /\ UNCHANGED <<storeVars, settings, recording, audioBlob, selectedService,
                   audioToTranscribe, awaited, splitOptions, splitBlobs,
                   chunkSeconds, merged, index, transcriptionResult, analytics,
                   calcVars, callerVars>>

SetDoneReturns(dbOk) ==
    /\ pc = "awaitSetDone"
    /\ dbRecording' =
          IF dbOk
          THEN [recording EXCEPT !.transcribedText = transcriptionResult.data,
                                 !.transcriptionStatus = "DONE"]
          ELSE dbRecording
    /\ notifications' =
          IF dbOk THEN notifications
          ELSE Append(notifications,
                      Warning("Unable to update recording after transcription"))
    /\ calls' = Append(calls, ReturnEvent("db.recordings.update", NullBlob, dbOk, <<>>))
    /\ result' = Ok(transcriptionResult.data)
    /\ pc' = "done"
    /\ UNCHANGED <<storeVars, settings, recording, audioBlob, selectedService,
                   audioToTranscribe, awaited, splitOptions, splitBlobs,
                   chunkSeconds, merged, index, transcriptionResult, analytics,
                   calcVars, callerVars>>

(***************************************************************************)
(* The specification of one transcribeRecording run with the dialog.       *)
(***************************************************************************)
InitStore ==
    /\ isOpen = FALSE
    /\ blob = NullBlob
    /\ blobSizeMb = NullSizeMb
    /\ options = DefaultOptions
    /\ resolvePromise = 0
    /\ promises = <<>>

InitRunLocals ==
    /\ audioBlob = NullBlob
    /\ selectedService = ""
    /\ audioToTranscribe = NullBlob
    /\ awaited = 0
    /\ splitOptions = DefaultOptions
    /\ splitBlobs = <<>>
    /\ chunkSeconds = 0
    /\ merged = <<>>
    /\ index = 0
    /\ transcriptionResult = NoResult
    /\ result = NoResult
    /\ calls = <<>>
    /\ notifications = <<>>
    /\ analytics = <<>>

InitCalcIdle ==
    /\ calcPc = "idle"
    /\ calcOptions = DefaultOptions
    /\ calcSeconds = 0
    /\ calcTags = <<>>
    /\ calcTotalSeconds = 0
    /\ calcStamp = <<>>

NoCall == [method |-> "none", pending |-> 0]

InitCallerIdle ==
    /\ lastCall = NoCall
    /\ edited = DefaultOptions

SettingsOf(service, compression, o) ==
    [k \in {"transcription.selectedTranscriptionService",
            "transcription.compressionEnabled",
            "transcription.splitMaxMB", "transcription.splitBitrateKbps",
            "transcription.splitMinChunkSec", "transcription.splitSafetyMB",
            "transcription.splitTaggingEnabled"} |->
        CASE k = "transcription.selectedTranscriptionService" -> service
          [] k = "transcription.compressionEnabled" -> compression
          [] k = "transcription.splitMaxMB" -> o.maxMb
          [] k = "transcription.splitBitrateKbps" -> o.bitrateKbps
          [] k = "transcription.splitMinChunkSec" -> o.minChunkSec
          [] k = "transcription.splitSafetyMB" -> o.safetyMb
          [] k = "transcription.splitTaggingEnabled" -> o.addSplitTags]

Init ==
    /\ InitStore
    /\ InitRunLocals
    /\ InitCalcIdle
    /\ InitCallerIdle
    /\ pc = "start"
    /\ settings \in {SettingsOf(s, c, o) :
                        s \in ServiceSettings, c \in BOOLEAN, o \in SettingsSplitOptions}
    /\ dbRecording \in InitialRecordings
    /\ recording = dbRecording

Next ==
    \/ TranscribeRecording
    \/ GetAudioBlobFails
    \/ \E size \in BlobSizes : GetAudioBlobReturns(size)
    \/ \E dbOk \in BOOLEAN : SetTranscribingReturns(dbOk)
    \/ \E compressOk \in BOOLEAN : CompressReturns(compressOk)
    \/ \E input \in NumberInputs : UpdateNumberSetting(input[1], input[2])
    \/ \E checked \in BOOLEAN : CheckedChange(checked)
    \/ ClickConfirm
    \/ ClickCancel
    \/ DialogClosed
    \/ DialogResolved
    \/ SplitFails
    \/ \E n \in 1..MaxChunks : SplitReturns(n)
    \/ \E r \in ProviderResults \cup {Err("No transcription service selected")} : ChunkReturns(r)
    \/ \E r \in ProviderResults \cup {Err("No transcription service selected")} : ProviderReturns(r)
    \/ \E dbOk \in BOOLEAN : SetFailedReturns(dbOk)
    \/ \E dbOk \in BOOLEAN : SetDoneReturns(dbOk)

Spec == Init /\ [][Next]_vars

(***************************************************************************)
(* The pure helpers on drawn inputs: calculateChunkSeconds on an options   *)
(* record, the loop's tags for the chunks that follow from it, and         *)
(* formatTimestamp / formatSplitTag on drawn numbers of seconds.           *)
(***************************************************************************)
CalcOptionChoices ==
    [maxMb : {MbScale, 25 * MbScale},
     bitrateKbps : {16, 128, 320},
     minChunkSec : {5, 10, 2000},
     safetyMb : {0, MbScale \div 2, MbScale - 1, 30 * MbScale},
     addSplitTags : BOOLEAN]

TimestampInputs == {-5, 0, 59, 60, 3599, 3600, 4815, 359999, 360000}

InitCalc ==
    /\ InitStore
    /\ InitRunLocals
    /\ InitCallerIdle
    /\ pc = "idle"
    /\ settings = SettingsOf("", FALSE, DefaultOptions)
    /\ dbRecording \in {r \in InitialRecordings : r.transcriptionStatus = "UNPROCESSED"}
    /\ recording = dbRecording
    /\ calcPc = "options"
    /\ calcOptions \in CalcOptionChoices
    /\ calcSeconds = 0
    /\ calcTags = <<>>
    /\ calcTotalSeconds = 0
    /\ calcStamp = <<>>

CalcChunkSeconds ==
    /\ calcPc = "options"
    /\ calcSeconds' = CalculateChunkSeconds(calcOptions)
    /\ calcPc' = "chunked"
    /\ UNCHANGED <<storeVars, settings, dbRecording, runVars, logVars, callerVars,
                   calcOptions, calcTags, calcTotalSeconds, calcStamp>>

\* The tag of the next chunk, as the loop of transcribeSplitAudio computes it.
CalcPushTag ==
    /\ calcPc = "chunked"
    /\ Len(calcTags) < MaxChunks
    /\ calcTags' = Append(calcTags, ChunkTag(Len(calcTags), calcSeconds))
    /\ UNCHANGED <<storeVars, settings, dbRecording, runVars, logVars, callerVars,
                   calcPc, calcOptions, calcSeconds, calcTotalSeconds, calcStamp>>

CalcFormatTimestamp(totalSeconds) ==
    /\ calcPc = "options"
    /\ calcTotalSeconds' = totalSeconds
    /\ calcStamp' = FormatTimestamp(totalSeconds)
    /\ calcPc' = "stamped"
    /\ UNCHANGED <<storeVars, settings, dbRecording, runVars, logVars, callerVars,
                   calcOptions, calcSeconds, calcTags>>

CalcFormatSplitTag(n, startSeconds, endSeconds) ==
    /\ calcPc = "stamped"
    /\ calcTags' = <<FormatSplitTag(n, startSeconds, endSeconds)>>
    /\ calcPc' = "tagged"
    /\ UNCHANGED <<storeVars, settings, dbRecording, runVars, logVars, callerVars,
                   calcOptions, calcSeconds, calcTotalSeconds, calcStamp>>

NextCalc ==
    \/ CalcChunkSeconds
    \/ CalcPushTag
    \/ \E t \in TimestampInputs : CalcFormatTimestamp(t)
    \/ \E n \in {1, 10 * MaxChunks}, e \in TimestampInputs :
          CalcFormatSplitTag(n, calcTotalSeconds, e)

SpecCalc == InitCalc /\ [][NextCalc]_vars

(***************************************************************************)
(* Properties of the chunk-length formula.                                 *)
(*                                                                         *)
(* With N = (maxMb - safetyMb) * MB_BYTES and D = MbScale*bitrateKbps*125, *)
(* target_bytes / bytes_per_second = N / D, so for an integer r            *)
(*   r * bytes_per_second <= target_bytes      iff  r * D <= N             *)
(*   floor(target_bytes / bytes_per_second) <= r  iff  N < (r + 1) * D.    *)
(***************************************************************************)
BudgetN(o) == (o.maxMb - o.safetyMb) * MB_BYTES
BudgetD(o) == MbScale * o.bitrateKbps * 125

\* C1: for every options record with bitrateKbps > 0, calculateChunkSeconds
\* returns max(minChunkSec, floor(target_bytes / bytes_per_second)): the result is
\* at least minChunkSec, at least the floored quotient, and equal to one of them.
C1_ChunkSecondsIsMaxOfMinAndFloor ==
    (calcPc = "chunked" /\ calcOptions.bitrateKbps > 0) =>
        /\ calcSeconds >= calcOptions.minChunkSec
        /\ BudgetN(calcOptions) < (calcSeconds + 1) * BudgetD(calcOptions)
        /\ \/ calcSeconds = calcOptions.minChunkSec
           \/ calcSeconds * BudgetD(calcOptions) <= BudgetN(calcOptions)

\* C1 witness: the formula has been applied where the floored quotient is the
\* larger of the two, and where the minimum is.
C1_Witness ==
    /\ calcPc = "chunked"
    /\ calcOptions.bitrateKbps > 0
    /\ calcSeconds > calcOptions.minChunkSec
    /\ calcSeconds * BudgetD(calcOptions) < BudgetN(calcOptions)

\* C5 as stated: for every options record the dialog accepts, a chunk of
\* chunk_seconds at the configured bitrate is no larger than the target.
C5_Original_ChunkFitsBudget ==
    calcPc = "chunked" =>
        calcSeconds * BudgetD(calcOptions) <= BudgetN(calcOptions)

\* C5 as amended: when a chunk of minChunkSec seconds fits the target, so does the
\* computed chunk; otherwise the chunk is exactly minChunkSec seconds long and is
\* larger than the target.
C5_ChunkFitsBudgetUnlessMinimumDominates ==
    (calcPc = "chunked" /\ calcOptions.bitrateKbps > 0) =>
        IF calcOptions.minChunkSec * BudgetD(calcOptions) <= BudgetN(calcOptions)
        THEN calcSeconds * BudgetD(calcOptions) <= BudgetN(calcOptions)
        ELSE /\ calcSeconds = calcOptions.minChunkSec
             /\ calcSeconds * BudgetD(calcOptions) > BudgetN(calcOptions)

\* C5 witness: a computed chunk longer than the minimum that fits the target
\* without filling it exactly.
C5_Witness ==
    /\ calcPc = "chunked"
    /\ calcSeconds > calcOptions.minChunkSec
    /\ calcSeconds * BudgetD(calcOptions) < BudgetN(calcOptions)
    /\ (calcSeconds + 1) * BudgetD(calcOptions) > BudgetN(calcOptions)
    /\ calcOptions.safetyMb > 0

(***************************************************************************)
(* Reading a tag back: its fields, and the shapes a timestamp can have.    *)
(***************************************************************************)
IsDigit(c) == c \in {"0", "1", "2", "3", "4", "5", "6", "7", "8", "9"}
IsSixth(c) == c \in {"0", "1", "2", "3", "4", "5"}
AllDigits(s) == Len(s) > 0 /\ \A i \in 1..Len(s) : IsDigit(s[i])

\* mm:ss, seconds in 00..59
IsMmSs(s) ==
    /\ Len(s) = 5
    /\ IsDigit(s[1]) /\ IsDigit(s[2])
    /\ s[3] = ":"
    /\ IsSixth(s[4]) /\ IsDigit(s[5])

\* hh:mm:ss with at least two digits of hours, not all zero, minutes and seconds
\* in 00..59
IsHhMmSs(s) ==
    /\ Len(s) >= 8
    /\ LET hh == SubSeq(s, 1, Len(s) - 6)
           rest == SubSeq(s, Len(s) - 4, Len(s))
       IN  /\ AllDigits(hh)
           /\ \E i \in 1..Len(hh) : hh[i] # "0"
           /\ s[Len(s) - 5] = ":"
           /\ IsMmSs(rest)
           /\ IsSixth(rest[1])

IsMmSsOrHhMmSs(s) == IsMmSs(s) \/ IsHhMmSs(s)

Positions(s, c) == {i \in 1..Len(s) : s[i] = c}
TheOnly(S) == CHOOSE x \in S : TRUE

\* "[Chunk " n " * " start " - " end "]" with exactly one bullet and one dash
HasTagFields(tag) ==
    /\ Cardinality(Positions(tag, Bullet)) = 1
    /\ Cardinality(Positions(tag, EnDash)) = 1
    /\ LET b == TheOnly(Positions(tag, Bullet))
           d == TheOnly(Positions(tag, EnDash))
       IN  /\ 9 < b /\ b + 2 < d /\ d + 2 < Len(tag)
           /\ SubSeq(tag, 1, 7) = <<"[", "C", "h", "u", "n", "k", " ">>
           /\ tag[b - 1] = " " /\ tag[b + 1] = " "
           /\ tag[d - 1] = " " /\ tag[d + 1] = " "
           /\ tag[Len(tag)] = "]"

TagNumber(tag) == SubSeq(tag, 8, TheOnly(Positions(tag, Bullet)) - 2)
TagStart(tag) ==
    SubSeq(tag, TheOnly(Positions(tag, Bullet)) + 2, TheOnly(Positions(tag, EnDash)) - 2)
TagEnd(tag) == SubSeq(tag, TheOnly(Positions(tag, EnDash)) + 2, Len(tag) - 1)

IsTag(tag) ==
    /\ HasTagFields(tag)
    /\ AllDigits(TagNumber(tag))
    /\ IsMmSsOrHhMmSs(TagStart(tag))
    /\ IsMmSsOrHhMmSs(TagEnd(tag))

\* C3 as stated: every tag formatSplitTag produces is [Chunk n * mm:ss - mm:ss],
\* both timestamps two-digit minutes and two-digit seconds.
C3_Original_TagIsMmSs ==
    \A i \in 1..Len(calcTags) :
        /\ HasTagFields(calcTags[i])
        /\ AllDigits(TagNumber(calcTags[i]))
        /\ IsMmSs(TagStart(calcTags[i]))
        /\ IsMmSs(TagEnd(calcTags[i]))

\* C3 as amended: every tag is [Chunk n * T - T] where each T is mm:ss for a time
\* under one hour and hh:mm:ss (hours padded to at least two digits) from one hour
\* on, minutes and seconds always two digits in 00..59.
C3_TagIsMmSsOrHhMmSs ==
    /\ \A i \in 1..Len(calcTags) : IsTag(calcTags[i])
    /\ calcPc \in {"stamped", "tagged"} =>
          /\ IF calcTotalSeconds < 3600 THEN IsMmSs(calcStamp) ELSE IsHhMmSs(calcStamp)
          /\ calcPc = "tagged" => TagStart(calcTags[1]) = calcStamp

\* C3 witness: a tag whose start is under an hour and whose end is an hour or more,
\* and a tag of a chunk number of two digits.
C3_Witness ==
    /\ calcPc = "tagged"
    /\ IsMmSs(TagStart(calcTags[1]))
    /\ IsHhMmSs(TagEnd(calcTags[1]))
    /\ Len(TagNumber(calcTags[1])) = 2

(***************************************************************************)
(* Reading the record of service calls and the merged transcript.          *)
(***************************************************************************)
\* The provider each known value of the selected-service setting names.
NamedProvider ==
    [s \in KnownServices |->
        CASE s = "OpenAI" -> "openai" [] s = "Groq" -> "groq"
          [] s = "speaches" -> "speaches" [] s = "ElevenLabs" -> "elevenlabs"
          [] s = "Deepgram" -> "deepgram" [] s = "Mistral" -> "mistral"
          [] s = "whispercpp" -> "whispercpp" [] s = "parakeet" -> "parakeet"
          [] s = "moonshine" -> "moonshine"]
AllProviders == {NamedProvider[s] : s \in KnownServices}
SelectedSetting == settings["transcription.selectedTranscriptionService"]

IsProviderEvent(e) == e.svc \in AllProviders
IsProviderCall(e) == e.svc \in AllProviders /\ e.phase = "call"
IsProviderReturn(e) == e.svc \in AllProviders /\ e.phase = "return"
ProviderEvents == SelectSeq(calls, IsProviderEvent)
ProviderCallEvents == SelectSeq(calls, IsProviderCall)
ProviderReturnEvents == SelectSeq(calls, IsProviderReturn)

Happened(svc, phase, ok) ==
    \E i \in 1..Len(calls) :
        calls[i].svc = svc /\ calls[i].phase = phase /\ calls[i].ok = ok
Called(svc) == Happened(svc, "call", TRUE)
Notified(n) == \E i \in 1..Len(notifications) : notifications[i] = n

\* transcribeBlob has returned (its result is held in transcriptionResult).
BlobTranscribed == pc \in {"awaitSetDone", "awaitSetFailed"} \/ (pc = "done" /\ audioBlob # NullBlob)

\* The text between the separators "\n\n", left to right.
RECURSIVE SplitParts(_)
SplitParts(text) ==
    LET cuts == {i \in 1..(Len(text) - 1) : text[i] = NL /\ text[i + 1] = NL}
    IN  IF cuts = {} THEN <<text>>
        ELSE LET c == CHOOSE i \in cuts : \A j \in cuts : i <= j
             IN  <<SubSeq(text, 1, c - 1)>> \o SplitParts(SubSeq(text, c + 2, Len(text)))

\* t is raw without the whitespace at its two ends.
IsTrimOf(t, raw) ==
    /\ t = <<>> \/ (~IsSpace(t[1]) /\ ~IsSpace(t[Len(t)]))
    /\ \E lead \in 0..Len(raw) :
          /\ lead + Len(t) <= Len(raw)
          /\ SubSeq(raw, lead + 1, lead + Len(t)) = t
          /\ \A i \in 1..Len(raw) : (i <= lead \/ i > lead + Len(t)) => IsSpace(raw[i])

DigitValue(c) ==
    CASE c = "0" -> 0 [] c = "1" -> 1 [] c = "2" -> 2 [] c = "3" -> 3 [] c = "4" -> 4
      [] c = "5" -> 5 [] c = "6" -> 6 [] c = "7" -> 7 [] c = "8" -> 8 [] c = "9" -> 9

RECURSIVE NumberOf(_)
NumberOf(s) ==
    IF s = <<>> THEN 0 ELSE 10 * NumberOf(SubSeq(s, 1, Len(s) - 1)) + DigitValue(s[Len(s)])

\* The seconds a timestamp mm:ss or hh:mm:ss stands for.
SecondsOf(stamp) ==
    LET n == Len(stamp)
    IN  NumberOf(SubSeq(stamp, n - 1, n)) + 60 * NumberOf(SubSeq(stamp, n - 4, n - 3))
            + (IF n > 5 THEN 3600 * NumberOf(SubSeq(stamp, 1, n - 6)) ELSE 0)

\* transcribeSplitAudio has returned Ok: every chunk was transcribed.
SplitTranscribed ==
    /\ BlobTranscribed
    /\ transcriptionResult.ok
    /\ splitBlobs # <<>>

C4_TagCarriesChunkRange ==
    (pc \in {"awaitChunk", "awaitSetDone", "awaitSetFailed", "done"}
        /\ splitOptions.addSplitTags) =>
        /\ Len(merged) % 2 = 0
        /\ \A n \in 1..(Len(merged) \div 2) :
              LET tag == merged[2 * n - 1]
              IN  /\ IsTag(tag)
                  /\ NumberOf(TagNumber(tag)) = n
                  /\ SecondsOf(TagStart(tag)) = (n - 1) * chunkSeconds
                  /\ SecondsOf(TagEnd(tag)) = n * chunkSeconds
                  /\ n = 1 => TagStart(tag) = <<"0", "0", ":", "0", "0">>
                  /\ n > 1 => TagStart(tag) = TagEnd(merged[2 * n - 3])

\* C4 witness: three tagged chunks of more than half an hour each.
C4_Witness ==
    /\ SplitTranscribed
    /\ splitOptions.addSplitTags
    /\ Len(merged) = 6
    /\ chunkSeconds > 1800

(***************************************************************************)
(* Properties of the routing and of the order of the service calls.        *)
(***************************************************************************)
\* The blobs transcribeWithProvider has been entered with so far, in order.
SentToProvider ==
    CASE pc = "awaitProvider" -> <<audioToTranscribe>>
      [] pc = "awaitChunk" -> SubSeq(splitBlobs, 1, index + 1)
      [] BlobTranscribed /\ splitBlobs = <<>> /\ ~Called("splitAudioDialog.open")
            -> <<audioToTranscribe>>
      [] BlobTranscribed /\ splitBlobs # <<>> ->
            SubSeq(splitBlobs, 1, IF transcriptionResult.ok THEN index ELSE index + 1)
      [] OTHER -> <<>>

\* C6: every blob transcribeWithProvider is given goes to exactly one provider, the
\* one the selected-service setting names; when the setting names no known provider,
\* no provider is called and the error 'No transcription service selected' comes back.
C6_RoutesToSelectedProvider ==
    IF SelectedSetting \in KnownServices
    THEN /\ Len(ProviderCallEvents) = Len(SentToProvider)
         /\ \A i \in 1..Len(ProviderCallEvents) :
               /\ ProviderCallEvents[i].svc = NamedProvider[SelectedSetting]
               /\ ProviderCallEvents[i].blob = SentToProvider[i]
    ELSE /\ ProviderEvents = <<>>
         /\ (BlobTranscribed /\ SentToProvider # <<>>) =>
               transcriptionResult = Err("No transcription service selected")

\* C6 witness: a provider other than the first of the switch has been sent the
\* chunks of a split, and the run has ended.
C6_Witness ==
    /\ pc = "done"
    /\ SelectedSetting = "moonshine"
    /\ Len(ProviderCallEvents) = 3

\* The stage of the run a service call belongs to.
Stage(e) ==
    CASE e.svc = "db.recordings.getAudioBlob" -> 1
      [] e.svc = "db.recordings.update" /\ e.note = "TRANSCRIBING" -> 2
      [] e.svc = "ffmpeg.compressAudioBlob" -> 3
      [] e.svc = "splitAudioDialog.open" -> 4
      [] e.svc = "ffmpeg.splitAudioBlob" -> 5
      [] e.svc \in AllProviders -> 6
      [] OTHER -> 7

CallEvents == SelectSeq(calls, LAMBDA e : e.phase = "call")

\* C7: within one run the service calls are strictly sequential and ordered: every
\* call has returned before the next call is made; the calls come in the order fetch,
\* compression, split, provider, closing status update; the provider gets the chunks
\* one at a time in ascending index; the merged result exists only once every chunk
\* has returned.
C7_CallsSequentialAndOrdered ==
    /\ \A i \in 1..Len(calls) :
          /\ calls[i].phase = (IF i % 2 = 1 THEN "call" ELSE "return")
          /\ i % 2 = 0 => calls[i].svc = calls[i - 1].svc
    /\ \A i \in 1..Len(CallEvents) :
          /\ i = 1 => Stage(CallEvents[i]) = 1
          /\ i > 1 => Stage(CallEvents[i - 1]) <= Stage(CallEvents[i])
          /\ (i > 1 /\ Stage(CallEvents[i]) # 6) =>
                Stage(CallEvents[i - 1]) < Stage(CallEvents[i])
    /\ settings["transcription.compressionEnabled"] =>
          \A i \in 1..Len(calls) :
              Stage(calls[i]) \in {4, 5, 6} =>
                  \E j \in 1..(i - 1) :
                      calls[j].svc = "ffmpeg.compressAudioBlob" /\ calls[j].phase = "return"
    /\ \A i \in 1..Len(ProviderCallEvents) :
          ProviderCallEvents[i].blob.kind = "chunk" =>
              /\ ProviderCallEvents[i].blob.part = i
              /\ Happened("ffmpeg.splitAudioBlob", "return", TRUE)
    /\ SplitTranscribed =>
          /\ Len(ProviderReturnEvents) = Len(ProviderCallEvents)
          /\ SelectedSetting \in KnownServices => Len(ProviderReturnEvents) = Len(splitBlobs)

\* C7 witness: a run with compression and a split into three chunks that ended
\* with a merged transcript.
C7_Witness ==
    /\ pc = "done"
    /\ result.ok
    /\ Called("ffmpeg.compressAudioBlob")
    /\ Len(ProviderReturnEvents) = 3

(***************************************************************************)
(* Properties of the error handling.                                       *)
(***************************************************************************)
\* C8: when compression is enabled and compressAudioBlob fails, a warning is
\* notified, transcription goes on with the original blob, and transcribeBlob's
\* result is never the compression failure.
C8_CompressionFailureContinues ==
    Happened("ffmpeg.compressAudioBlob", "return", FALSE) =>
        /\ Notified(Warning("Audio compression failed"))
        /\ audioToTranscribe = audioBlob
        /\ audioToTranscribe.kind = "original"
        /\ pc \in {"awaitProvider", "awaitDialog", "awaitSplit", "awaitChunk",
                   "awaitSetDone", "awaitSetFailed", "done"}
        /\ \/ Called("splitAudioDialog.open")
           \/ SelectedSetting \notin KnownServices
           \/ /\ Len(ProviderCallEvents) = 1
              /\ ProviderCallEvents[1].blob = audioBlob
        /\ BlobTranscribed =>
              \/ transcriptionResult.ok
              \/ transcriptionResult.title \in
                    {"Provider error", "No transcription service selected",
                     "Split canceled", "Audio split failed"}

\* C8 witness: compression failed and the run still ended with a transcript, the
\* provider having been sent the original blob.
C8_Witness ==
    /\ Happened("ffmpeg.compressAudioBlob", "return", FALSE)
    /\ pc = "done"
    /\ result.ok
    /\ Len(ProviderCallEvents) = 1
    /\ ProviderCallEvents[1].blob.kind = "original"

\* C9: if splitAudioBlob fails, 'Audio split failed' is returned and no provider is
\* called; if the provider fails on chunk i, that error is returned at once, no chunk
\* after i is sent, and no partial merged transcript is returned.
C9_SplitPathFailureAborts ==
    /\ Happened("ffmpeg.splitAudioBlob", "return", FALSE) =>
          /\ BlobTranscribed
          /\ transcriptionResult = Err("Audio split failed")
          /\ pc = "done" => result = Err("Audio split failed")
          /\ ProviderEvents = <<>>
    /\ \A i \in 1..Len(ProviderEvents) :
          (ProviderEvents[i].phase = "return" /\ ~ProviderEvents[i].ok
              /\ ProviderEvents[i].blob.kind = "chunk") =>
              /\ i = Len(ProviderEvents)
              /\ \A j \in 1..Len(ProviderEvents) :
                    ProviderEvents[j].blob.part <= ProviderEvents[i].blob.part
              /\ BlobTranscribed
              /\ transcriptionResult = Err("Provider error")
              /\ pc = "done" => result = Err("Provider error")

\* C9 witness: the provider failed on the second of three chunks and the run ended.
C9_Witness ==
    /\ pc = "done"
    /\ Len(splitBlobs) = 3
    /\ Len(ProviderReturnEvents) = 2
    /\ ProviderReturnEvents[1].ok
    /\ ~ProviderReturnEvents[2].ok

\* C10: when fetching the audio blob fails, transcribeRecording returns the error
\* 'Failed to fetch audio', the recording's row is left as it was (no update is
\* issued), and neither compression, the dialog nor any provider is invoked.
C10_FetchFailureAborts ==
    Happened("db.recordings.getAudioBlob", "return", FALSE) =>
        /\ pc = "done"
        /\ result = Err("Failed to fetch audio")
        /\ dbRecording = recording
        /\ Len(calls) = 2
        /\ \A i \in 1..Len(calls) : calls[i].svc = "db.recordings.getAudioBlob"
        /\ ~isOpen /\ promises = <<>>
        /\ notifications = <<>>

\* C10 witness: a run whose fetch failed.
C10_Witness ==
    /\ pc = "done"
    /\ Happened("db.recordings.getAudioBlob", "return", FALSE)
    /\ dbRecording.transcriptionStatus = "UNPROCESSED"

(***************************************************************************)
(* The run beside other runs.  transcribeRecordings (lines 181-203) starts *)
(* one transcribeBlob per recording without awaiting the previous one, and *)
(* all of them share the one splitAudioDialog: while this run goes on,     *)
(* another run whose blob needs splitting reaches line 263 and opens the   *)
(* dialog.  What the other run does after its own promise resolves touches *)
(* nothing of this run.                                                    *)
(***************************************************************************)
MaxOtherOpens == 1

\* The opens made so far by runs other than this one.
OtherOpens == Len(promises) - (IF awaited # 0 THEN 1 ELSE 0)

OtherRunOpens(size) ==
    /\ pc # "start"
    /\ OtherOpens < MaxOtherOpens
    /\ RequiresSplit(OriginalBlob(size))
    /\ StoreOpen([blob |-> OriginalBlob(size),
                  blobSizeMb |-> SizeMb(OriginalBlob(size)),
                  options |-> SettingsOptions])
    /\ lastCall' = [method |-> "open", pending |-> resolvePromise]
    /\ edited' = SettingsOptions
    /\ UNCHANGED <<settings, dbRecording, runVars, logVars, calcVars>>

\* The user answers the dialog without editing the options.
NextConcurrent ==
    \/ TranscribeRecording
    \/ GetAudioBlobFails
    \/ \E size \in BlobSizes : GetAudioBlobReturns(size)
    \/ \E dbOk \in BOOLEAN : SetTranscribingReturns(dbOk)
    \/ \E compressOk \in BOOLEAN : CompressReturns(compressOk)
    \/ \E size \in BlobSizes : OtherRunOpens(size)
    \/ ClickConfirm
    \/ ClickCancel
    \/ DialogClosed
    \/ DialogResolved
    \/ SplitFails
    \/ \E n \in 1..MaxChunks : SplitReturns(n)
    \/ \E r \in ProviderResults \cup {Err("No transcription service selected")} : ChunkReturns(r)
    \/ \E r \in ProviderResults \cup {Err("No transcription service selected")} : ProviderReturns(r)
    \/ \E dbOk \in BOOLEAN : SetFailedReturns(dbOk)
    \/ \E dbOk \in BOOLEAN : SetDoneReturns(dbOk)

SpecConcurrent == Init /\ [][NextConcurrent]_vars

(***************************************************************************)
(* The dialog store under arbitrary callers: any sequence of open,         *)
(* updateOptions, confirm and cancel calls (lines 46-73) and of closings   *)
(* of the dialog by the component.                                         *)
(***************************************************************************)
MaxOpens == 3

OpenRequests ==
    {[blob |-> OriginalBlob(size), blobSizeMb |-> SizeMb(OriginalBlob(size)),
      options |-> o] :
        size \in {n \in BlobSizes : RequiresSplit(OriginalBlob(n))},
        o \in SettingsSplitOptions}

\* Partial<SplitAudioOptions>: the component's one-key patches and a two-key one.
OptionPatches ==
    << [bitrateKbps |-> 16],
       [addSplitTags |-> FALSE],
       [maxMb |-> 2 * MbScale, safetyMb |-> 0] >>

\* What value a patch leaves under a key: its own if it names the key.
AfterPatch(old, next, key) == IF key \in DOMAIN next THEN next[key] ELSE old

CallOpen(request) ==
    /\ Len(promises) < MaxOpens
    /\ StoreOpen(request)
    /\ lastCall' = [method |-> "open", pending |-> resolvePromise]
    /\ edited' = request.options
    /\ UNCHANGED <<settings, dbRecording, runVars, logVars, calcVars>>

CallUpdateOptions(next) ==
    /\ StoreUpdateOptions(next)
    /\ lastCall' = [method |-> "updateOptions", pending |-> resolvePromise]
    /\ edited' = [maxMb |-> AfterPatch(edited.maxMb, next, "maxMb"),
                  bitrateKbps |-> AfterPatch(edited.bitrateKbps, next, "bitrateKbps"),
                  minChunkSec |-> AfterPatch(edited.minChunkSec, next, "minChunkSec"),
                  safetyMb |-> AfterPatch(edited.safetyMb, next, "safetyMb"),
                  addSplitTags |-> AfterPatch(edited.addSplitTags, next, "addSplitTags")]
    /\ UNCHANGED <<settings, dbRecording, runVars, logVars, calcVars>>

CallConfirm ==
    /\ StoreConfirm
    /\ lastCall' = [method |-> "confirm", pending |-> resolvePromise]
    /\ UNCHANGED <<edited, settings, dbRecording, runVars, logVars, calcVars>>

CallCancel ==
    /\ StoreCancel
    /\ lastCall' = [method |-> "cancel", pending |-> resolvePromise]
    /\ UNCHANGED <<edited, settings, dbRecording, runVars, logVars, calcVars>>

InitDialog ==
    /\ InitStore
    /\ InitRunLocals
    /\ InitCalcIdle
    /\ InitCallerIdle
    /\ pc = "idle"
    /\ settings = SettingsOf("", FALSE, DefaultOptions)
    /\ dbRecording \in {r \in InitialRecordings : r.transcriptionStatus = "UNPROCESSED"}
    /\ recording = dbRecording

NextDialog ==
    \/ \E request \in OpenRequests : CallOpen(request)
    \/ \E i \in 1..Len(OptionPatches) : CallUpdateOptions(OptionPatches[i])
    \/ CallConfirm
    \/ CallCancel
    \/ DialogClosed

SpecDialog == InitDialog /\ [][NextDialog]_vars

(***************************************************************************)
(* Properties of the recording's status updates.                           *)
(***************************************************************************)
\* The returns of db.recordings.update that failed, by the status the call was
\* to write (the call is the event just before its return).
FailedUpdates(statuses) ==
    {i \in 2..Len(calls) :
        /\ calls[i].svc = "db.recordings.update"
        /\ calls[i].phase = "return"
        /\ ~calls[i].ok
        /\ calls[i - 1].note \in statuses}

WarningsTitled(title) ==
    {i \in 1..Len(notifications) : notifications[i] = Warning(title)}

TranscriptionErrors ==
    {"Provider error", "No transcription service selected", "Split canceled",
     "Audio split failed"}

\* C11: a failed status update is reported and the run goes on: after a failed
\* update to TRANSCRIBING the transcription is still attempted, after a failed
\* update to DONE the call still returns Ok with the transcribed text, after a
\* failed update to FAILED it still returns the transcription error; every such
\* failure produces one warning notification.
C11_StatusUpdateFailureContinues ==
    /\ Cardinality(WarningsTitled("Unable to set recording transcription status to transcribing"))
          = Cardinality(FailedUpdates({"TRANSCRIBING"}))
    /\ Cardinality(WarningsTitled("Unable to update recording after transcription"))
          = Cardinality(FailedUpdates({"DONE", "FAILED"}))
    /\ \A i \in FailedUpdates({"TRANSCRIBING"}) :
          /\ pc \in {"awaitCompress", "awaitDialog", "awaitSplit", "awaitChunk",
                     "awaitProvider", "awaitSetDone", "awaitSetFailed", "done"}
          /\ analytics # <<>> /\ analytics[1] = "transcription_requested"
          /\ \/ Len(calls) > i /\ Stage(calls[i + 1]) \in {3, 4, 6}
             \/ SelectedSetting \notin KnownServices
          /\ pc = "done" =>
                \/ result.ok /\ result = Ok(transcriptionResult.data)
                \/ ~result.ok /\ result.title \in TranscriptionErrors
    /\ FailedUpdates({"DONE"}) # {} =>
          /\ pc = "done"
          /\ transcriptionResult.ok
          /\ result = Ok(transcriptionResult.data)
    /\ FailedUpdates({"FAILED"}) # {} =>
          /\ pc = "done"
          /\ ~result.ok
          /\ result = transcriptionResult
          /\ result.title \in TranscriptionErrors

\* C11 witness: both the update to TRANSCRIBING and the update to DONE failed and
\* the run returned the transcribed text.
C11_Witness ==
    /\ pc = "done"
    /\ FailedUpdates({"TRANSCRIBING"}) # {}
    /\ FailedUpdates({"DONE"}) # {}
    /\ result.ok
    /\ result.data # <<>>

\* C12 as stated: when compression is enabled and succeeds, the audio that reaches
\* the provider is the compressed blob, whether sent whole or as the chunks of a
\* split; the original blob is used only when compression is off or failed.
C12_ProviderGetsCompressedAudio ==
    \A i \in 1..Len(ProviderCallEvents) :
        LET sent == ProviderCallEvents[i].blob
            audio == IF sent.kind = "chunk" THEN sent.src ELSE sent.kind
        IN  audio = (IF Happened("ffmpeg.compressAudioBlob", "return", TRUE)
                     THEN "compressed" ELSE "original")

\* C13: with the blob fetched and every database update succeeding, the status is
\* TRANSCRIBING before any compression, dialog or provider call and while they run;
\* when the call has returned the status is DONE, with the transcribed text stored,
\* exactly if the result is Ok and FAILED exactly if it is an error, and never
\* TRANSCRIBING.
C13_StatusFollowsRun ==
    FailedUpdates({"TRANSCRIBING", "DONE", "FAILED"}) = {} =>
        /\ \A i \in 1..Len(calls) :
              Stage(calls[i]) \in {3, 4, 5, 6} =>
                  \E j \in 2..(i - 1) :
                      /\ calls[j].svc = "db.recordings.update"
                      /\ calls[j].phase = "return"
                      /\ calls[j - 1].note = "TRANSCRIBING"
        /\ pc \in {"awaitCompress", "awaitDialog", "awaitSplit", "awaitChunk",
                   "awaitProvider", "awaitSetDone", "awaitSetFailed"} =>
              dbRecording = [recording EXCEPT !.transcriptionStatus = "TRANSCRIBING"]
        /\ (pc = "done" /\ audioBlob # NullBlob) =>
              /\ dbRecording.transcriptionStatus \in {"DONE", "FAILED"}
              /\ result.ok <=> dbRecording.transcriptionStatus = "DONE"
              /\ ~result.ok <=> dbRecording.transcriptionStatus = "FAILED"
              /\ result.ok => dbRecording.transcribedText = result.data
              /\ ~result.ok => dbRecording.transcribedText = recording.transcribedText

\* C13 witness: a run on a recording that was DONE before ended in an error, all
\* updates having succeeded.
C13_Witness ==
    /\ pc = "done"
    /\ audioBlob # NullBlob
    /\ FailedUpdates({"TRANSCRIBING", "DONE", "FAILED"}) = {}
    /\ recording.transcriptionStatus = "DONE"
    /\ ~result.ok

(***************************************************************************)
(* Properties of the decision to split.                                    *)
(***************************************************************************)
\* transcribeBlob is past its size test.
PastSizeTest ==
    pc \in {"awaitDialog", "awaitSplit", "awaitChunk", "awaitProvider",
            "awaitSetDone", "awaitSetFailed"} \/ (pc = "done" /\ audioBlob # NullBlob)

\* C15: the dialog is opened exactly if the original blob is larger than
\* 25 * 1048576 bytes, whatever the provider, the outcome of compression and the
\* splitMaxMB setting; a blob of 25 MiB or less goes to the provider in a single
\* call and the dialog stays closed.
C15_SplitIffOver25MiB ==
    /\ Called("splitAudioDialog.open") => PastSizeTest
    /\ PastSizeTest =>
          /\ Called("splitAudioDialog.open") <=> audioBlob.size > 25 * 1048576
          /\ audioBlob.size <= 25 * 1048576 =>
                /\ promises = <<>> /\ ~isOpen
                /\ splitBlobs = <<>>
                /\ ~Called("ffmpeg.splitAudioBlob")
                /\ Len(ProviderCallEvents) =
                      (IF SelectedSetting \in KnownServices THEN 1 ELSE 0)
                /\ \A i \in 1..Len(ProviderCallEvents) :
                      ProviderCallEvents[i].blob.kind \in {"original", "compressed"}

\* C15 witness: a blob of exactly 25 MiB was sent in one call with compression
\* having succeeded and a splitMaxMB setting of 1 MB.
C15_Witness ==
    /\ pc = "done"
    /\ audioBlob.size = 25 * 1048576
    /\ Len(ProviderCallEvents) = 1
    /\ Happened("ffmpeg.compressAudioBlob", "return", TRUE)
    /\ settings["transcription.splitMaxMB"] = MbScale

\* The promise this run awaited was resolved with null and the run has gone on.
SplitAnsweredNull ==
    /\ awaited # 0
    /\ promises[awaited].state = "resolved"
    /\ promises[awaited].value.isNull
    /\ pc # "awaitDialog"

\* C14: when the blob needs splitting and the dialog's promise resolves with null
\* (Cancel, the dialog closed, or the request superseded by another open),
\* transcribeBlob returns the error 'Split canceled' and neither splitAudioBlob nor
\* any provider is called.
C14_NullMeansSplitCanceled ==
    SplitAnsweredNull =>
        /\ RequiresSplit(audioBlob)
        /\ transcriptionResult = Err("Split canceled")
        /\ pc \in {"awaitSetFailed", "done"}
        /\ pc = "done" => result = Err("Split canceled")
        /\ ~Called("ffmpeg.splitAudioBlob")
        /\ splitBlobs = <<>>
        /\ ProviderEvents = <<>>
        /\ calls[Len(calls)].svc \in {"splitAudioDialog.open", "db.recordings.update"}

\* C14 witness: this run's request was superseded by another run's open, and the
\* run returned.
C14_Witness ==
    /\ SplitAnsweredNull
    /\ pc = "done"
    /\ lastCall = [method |-> "open", pending |-> awaited]
    /\ resolvePromise = awaited + 1

(***************************************************************************)
(* Properties of the dialog store.                                         *)
(***************************************************************************)
Pending == {i \in 1..Len(promises) : promises[i].state = "pending"}

ResolvedOnceWith(value) == [state |-> "resolved", value |-> value, resolveCalls |-> 1]

\* C16: the store holds at most one pending request, the most recent one; an open
\* made while an earlier request is pending resolves that request's promise with
\* null, and confirm only ever resolves the most recent request.
C16_OnlyLatestRequestPending ==
    /\ Cardinality(Pending) <= 1
    /\ Pending = (IF resolvePromise = 0 THEN {} ELSE {resolvePromise})
    /\ Pending \subseteq {Len(promises)}
    /\ (lastCall.method = "open" /\ lastCall.pending # 0) =>
          /\ lastCall.pending < Len(promises)
          /\ promises[lastCall.pending] = ResolvedOnceWith(NullResult)
    /\ \A i \in 1..(Len(promises) - 1) :
          promises[i].state = "resolved"
    /\ (lastCall.method = "confirm" /\ lastCall.pending # 0) =>
          /\ lastCall.pending = Len(promises)
          /\ ~promises[lastCall.pending].value.isNull

\* C16 witness: three requests overlapped; the first two were resolved with null by
\* the next open and the third was confirmed.
C16_Witness ==
    /\ Len(promises) = 3
    /\ promises[1].value.isNull /\ promises[2].value.isNull
    /\ lastCall = [method |-> "confirm", pending |-> 3]
    /\ blob # NullBlob

\* C17: every promise open has returned is resolved at most once, and a confirm or
\* cancel made while no request is pending changes nothing of isOpen, blob,
\* blobSizeMb, options and resolves nothing.
C17_ResolvedOnceAndIdleCallsNoOps ==
    /\ [](\A i \in 1..Len(promises) :
             /\ promises[i].resolveCalls <= 1
             /\ promises[i].state = "pending" <=> promises[i].resolveCalls = 0)
    /\ [][(lastCall'.method \in {"confirm", "cancel"} /\ lastCall'.pending = 0) =>
             /\ resolvePromise = 0
             /\ UNCHANGED <<isOpen, blob, blobSizeMb, options, resolvePromise, promises>>]_vars

\* C17 witness: cancel was called with nothing pending, after a request had been
\* opened and answered.
C17_Witness ==
    /\ lastCall = [method |-> "cancel", pending |-> 0]
    /\ Len(promises) >= 1
    /\ promises[Len(promises)].resolveCalls = 1
    /\ ~promises[Len(promises)].value.isNull

\* C18: confirm resolves the pending request with the options as last edited (the
\* options given to open, overwritten key by key by the patches made since, in
\* order); cancel resolves it with null whatever was edited.
C18_ConfirmGivesEditedOptions ==
    /\ resolvePromise # 0 => options = edited
    /\ (lastCall.method = "confirm" /\ lastCall.pending # 0) =>
          promises[lastCall.pending] = ResolvedOnceWith(OptionsResult(edited))
    /\ (lastCall.method = "cancel" /\ lastCall.pending # 0) =>
          promises[lastCall.pending] = ResolvedOnceWith(NullResult)

\* C18 witness: a request opened with non-default options was confirmed after the
\* bitrate and then maxMb and safetyMb were patched; the untouched keys are the
\* opened ones.
C18_Witness ==
    /\ lastCall.method = "confirm" /\ lastCall.pending # 0
    /\ edited = [maxMb |-> 2 * MbScale, bitrateKbps |-> 16, minChunkSec |-> 5,
                 safetyMb |-> 0, addSplitTags |-> FALSE]
    /\ promises[lastCall.pending].value.options.minChunkSec = 5

\* C19: the dialog is open exactly while a request is pending; it is never closed
\* while a caller awaits its promise.
C19_OpenIffPending ==
    /\ isOpen <=> resolvePromise # 0
    /\ isOpen <=> Pending # {}
    /\ ~isOpen => \A i \in 1..Len(promises) : promises[i].state = "resolved"

\* C19 witness: the dialog was closed by the component (no store method was called
\* after the open) and the request it showed is resolved with null.
C19_Witness ==
    /\ ~isOpen
    /\ lastCall.method = "open"
    /\ Len(promises) >= 2
    /\ promises[Len(promises)] = ResolvedOnceWith(NullResult)

====
